---- MODULE Spec2Model ----
(***************************************************************************)
(* The billing service of porkibackend (StripeService, canonical revision  *)
(* at src/unnamed/part_000 lines 1-380) and the table user_request_limits  *)
(* it reads and writes.  Every awaited store call is one step, so calls    *)
(* interleave exactly at the code's await points.                          *)
(***************************************************************************)
EXTENDS Integers, Sequences, FiniteSets, TLC

VARIABLES store, calls, now, nCalls, served, lastWebhook

vars == <<store, calls, now, nCalls, served, lastWebhook>>

(* ------------------------------ bounds -------------------------------- *)

\* request slots that can be in flight at once
NumSlots == 2
\* event.created of a webhook event is drawn from 1..MaxEventTime (seconds)
MaxEventTime == 2
\* the server clock runs over 1..MaxNow (seconds)
MaxNow == 2
\* validate-request calls started in one behaviour
MaxCalls == 7

(* ----------------------------- constants ------------------------------ *)

FREE_USER_REQUEST_LIMIT == 5

Users == {"u1"}
Customers == {"cus_1", "cus_2"}
SubscriptionIds == {"sub_1", "sub_2"}
Slots == 1..NumSlots
EventTimes == 1..MaxEventTime

\* SQL NULL / JS undefined of a text column or field
NULL == "NULL"
\* SQL NULL of a timestamptz column (instants are seconds >= 0)
NoTime == 0 - 1

(* ------------------------- Date and timestamptz ----------------------- *)
\* A JS Date built from whole seconds holds a whole number of seconds; the
\* model keeps the instant in seconds (sec * 1000 ms does not fit TLC's
\* integers).  toISOString() renders the instant as UTC civil fields.

DaysFromCivil(y, m, d) ==
    LET yy  == IF m <= 2 THEN y - 1 ELSE y
        era == yy \div 400
        yoe == yy - era * 400
        mp  == IF m > 2 THEN m - 3 ELSE m + 9
        doy == (153 * mp + 2) \div 5 + d - 1
        doe == yoe * 365 + yoe \div 4 - yoe \div 100 + doy
    IN  era * 146097 + doe - 719468

CivilFromDays(z) ==
    LET zz  == z + 719468
        era == zz \div 146097
        doe == zz - era * 146097
        yoe == (doe - doe \div 1460 + doe \div 36524 - doe \div 146096) \div 365
        doy == doe - (365 * yoe + yoe \div 4 - yoe \div 100)
        mp  == (5 * doy + 2) \div 153
        d   == doy - (153 * mp + 2) \div 5 + 1
        m   == IF mp < 10 THEN mp + 3 ELSE mp - 9
        y   == yoe + era * 400 + (IF m <= 2 THEN 1 ELSE 0)
    IN  [year |-> y, month |-> m, day |-> d]

\* Date.prototype.toISOString: "YYYY-MM-DDTHH:mm:ss.000Z" as its fields
toISOString(sec) ==
    LET c   == CivilFromDays(sec \div 86400)
        sod == sec % 86400
    IN  [year |-> c.year, month |-> c.month, day |-> c.day,
         hour |-> sod \div 3600, minute |-> (sod % 3600) \div 60,
         second |-> sod % 60]

\* the store's reading of an ISO-8601 UTC text into a timestamptz
ParseTimestamptz(iso) ==
    DaysFromCivil(iso.year, iso.month, iso.day) * 86400
        + iso.hour * 3600 + iso.minute * 60 + iso.second

(* ------------------------------ the table ----------------------------- *)
\* store is the table user_request_limits: a function from the user ids
\* that have a row to that row.

NewRow ==
    [request_count |-> 0, is_premium |-> FALSE,
     subscription_status |-> NULL, subscription_end_date |-> NoTime,
     stripe_customer_id |-> NULL, stripe_subscription_id |-> NULL,
     last_webhook_timestamp |-> NoTime, updated_at |-> NoTime]

HasRow(u) == u \in DOMAIN store

\* insert of a row: user_id is the table's key, a second row is refused
InsertRow(s, u) == [x \in DOMAIN s \cup {u} |-> IF x = u THEN NewRow ELSE s[x]]

(* ------------------------------ the calls ----------------------------- *)

NoResult ==
    [outcome |-> "none", allowed |-> FALSE, isPremium |-> FALSE,
     requestCount |-> 0, limit |-> 0]

Thrown == [NoResult EXCEPT !.outcome = "throw"]

Returned == [NoResult EXCEPT !.outcome = "return"]

\* the data an rpc returns: {updated, reason, attempted status}
NoData == [updated |-> "none", reason |-> NULL, status |-> NULL]

IdleCall ==
    [pc |-> "idle", op |-> "none", userId |-> NULL, customerId |-> NULL,
     isPremium |-> FALSE, currentCount |-> 0, result |-> NoResult]

Free(p) == calls[p].pc \in {"idle", "done"}

Finish(c, r) ==
    [c EXCEPT !.pc = "done", !.isPremium = FALSE, !.currentCount = 0,
              !.result = r]

Init ==
    /\ store = << >>
    /\ calls = [p \in Slots |-> IdleCall]
    /\ now = 1
    /\ nCalls = 0
    /\ served = 0
    /\ lastWebhook = [type |-> "none", created |-> NoTime,
                      data |-> NoData, http |-> 0]

\* the server clock advances
Tick ==
    /\ now < MaxNow
    /\ now' = now + 1
    /\ UNCHANGED <<store, calls>>

(* --------------------- validateAndIncrementRequest -------------------- *)

\* POST /api/validate-request with a userId: the call begins
validateAndIncrementRequest(p, u) ==
    /\ Free(p)
    /\ calls' = [calls EXCEPT ![p] =
                    [IdleCall EXCEPT !.pc = "ensure_select",
                                     !.op = "validate", !.userId = u]]
    /\ UNCHANGED <<store, now>>

\* where a call goes on once ensureUserRecord has returned
AfterEnsure(c) ==
    CASE c.op = "validate" -> "fetch"
      [] c.op = "create_session" -> "read_customer"
      [] c.op = "status" -> "status_default"
      [] OTHER -> "update_customer"

\* the insert attempted without looking for the row first
ensureUserRecordSelectBlind(p) ==
    /\ calls[p].pc = "ensure_select"
    /\ calls' = [calls EXCEPT ![p].pc = "ensure_insert"]
    /\ UNCHANGED <<store, now>>

\* ensureUserRecord: select('id').eq('user_id', userId).single()
ensureUserRecordSelect(p) ==
    /\ calls[p].pc = "ensure_select"
    /\ calls' = [calls EXCEPT ![p].pc =
                    IF HasRow(calls[p].userId) THEN AfterEnsure(calls[p])
                    ELSE "ensure_insert"]
    /\ UNCHANGED <<store, now>>

\* ensureUserRecord: insert({user_id, request_count: 0, is_premium: false})
ensureUserRecordInsert(p) ==
    /\ calls[p].pc = "ensure_insert"
    /\ IF HasRow(calls[p].userId)
       THEN /\ calls' = [calls EXCEPT ![p] = Finish(calls[p], Thrown)]
            /\ UNCHANGED store
       ELSE /\ store' = InsertRow(store, calls[p].userId)
            /\ calls' = [calls EXCEPT ![p].pc = AfterEnsure(calls[p])]
    /\ UNCHANGED now

\* the limit compared with > instead of >=
DeniedAboveLimit(isPremium, currentCount) ==
    ~isPremium /\ currentCount > FREE_USER_REQUEST_LIMIT

\* the last free request refused
DeniedOneEarly(isPremium, currentCount) ==
    ~isPremium /\ currentCount >= FREE_USER_REQUEST_LIMIT - 1

\* the limit applied without looking at is_premium
DeniedRegardlessOfPremium(isPremium, currentCount) ==
    currentCount >= FREE_USER_REQUEST_LIMIT

\* the quota decision on the row as read
Denied(isPremium, currentCount) ==
    ~isPremium /\ currentCount >= FREE_USER_REQUEST_LIMIT

\* select('is_premium, request_count, subscription_status') and the branch
validateFetch(p) ==
    /\ calls[p].pc = "fetch"
    /\ calls[p].op = "validate"
    /\ LET u == calls[p].userId IN
       IF ~HasRow(u)
       THEN calls' = [calls EXCEPT ![p] = Finish(calls[p], Thrown)]
       ELSE LET isPremium    == store[u].is_premium
                currentCount == store[u].request_count
            IN  IF Denied(isPremium, currentCount)
                THEN calls' = [calls EXCEPT ![p] = Finish(calls[p],
                         [outcome |-> "return", allowed |-> FALSE,
                          isPremium |-> isPremium,
                          requestCount |-> currentCount,
                          limit |-> FREE_USER_REQUEST_LIMIT])]
                ELSE IF ~isPremium
                THEN calls' = [calls EXCEPT ![p].pc = "update",
                                            ![p].isPremium = isPremium,
                                            ![p].currentCount = currentCount]
                ELSE calls' = [calls EXCEPT ![p] = Finish(calls[p],
                         [outcome |-> "return", allowed |-> TRUE,
                          isPremium |-> isPremium,
                          requestCount |-> currentCount, limit |-> 0])]
    /\ UNCHANGED <<store, now>>

\* the value written to request_count
\* the count written back without the increment
NextCountUnchanged(currentCount) == currentCount

NextCount(currentCount) == currentCount + 1

\* the stored count incremented in place, whatever it has become
validateUpdateInPlace(p) ==
    /\ calls[p].pc = "update"
    /\ LET u == calls[p].userId IN
       /\ store' = IF HasRow(u)
                   THEN [store EXCEPT ![u].request_count = @ + 1,
                                      ![u].updated_at =
                                          ParseTimestamptz(toISOString(now))]
                   ELSE store
       /\ calls' = [calls EXCEPT ![p] = Finish(calls[p],
                [outcome |-> "return", allowed |-> TRUE,
                 isPremium |-> calls[p].isPremium,
                 requestCount |-> NextCount(calls[p].currentCount),
                 limit |-> 0])]
    /\ UNCHANGED now

\* update({request_count: currentCount + 1, updated_at}).eq('user_id', userId)
validateUpdate(p) ==
    /\ calls[p].pc = "update"
    /\ LET u == calls[p].userId
           c == calls[p].currentCount
       IN  /\ store' = IF HasRow(u)
                       THEN [store EXCEPT ![u].request_count = NextCount(c),
                                          ![u].updated_at =
                                              ParseTimestamptz(toISOString(now))]
                       ELSE store
           /\ calls' = [calls EXCEPT ![p] = Finish(calls[p],
                    [outcome |-> "return", allowed |-> TRUE,
                     isPremium |-> calls[p].isPremium,
                     requestCount |-> NextCount(c), limit |-> 0])]
    /\ UNCHANGED now

(* ------------------------- webhook event payloads --------------------- *)
\* An event is [type, created, object].  In an object, 0 stands for an
\* absent number and NULL for an absent text.

SubscriptionStatuses == {"active", "past_due", "canceled"}

(* ---------------------------- Event Normalizer ------------------------ *)

\* the status passed on as Stripe sent it
NormalizeStatusVerbatim(sub) == sub.status

\* canceling whenever a cancellation is scheduled, whatever the status
NormalizeStatusAnyScheduled(sub) ==
    IF sub.cancel_at_period_end = TRUE THEN "canceling" ELSE sub.status

\* let status = subscription.status; 'canceling' when scheduled to cancel
NormalizeStatus(sub) ==
    IF sub.cancel_at_period_end = TRUE /\ sub.status = "active"
    THEN "canceling"
    ELSE sub.status

\* MakeDay/MakeDate of a Date setter: first day of the (possibly overflowing)
\* month, plus the day of the month, keeping the time of day
MakeDate(y, m, d, sod) ==
    LET m0 == m - 1
        yy == y + m0 \div 12
        mm == (m0 % 12) + 1
    IN  (DaysFromCivil(yy, mm, 1) + d - 1) * 86400 + sod

\* billing_cycle_anchor advanced by intervalCount units of interval
AdvanceAnchor(billingAnchor, interval, intervalCount) ==
    LET c   == CivilFromDays(billingAnchor \div 86400)
        sod == billingAnchor % 86400
    IN  CASE interval = "month" ->
                MakeDate(c.year, c.month + intervalCount, c.day, sod)
          [] interval = "year" ->
                MakeDate(c.year + intervalCount, c.month, c.day, sod)
          [] interval = "week" ->
                MakeDate(c.year, c.month, c.day + 7 * intervalCount, sod)
          [] interval = "day" ->
                MakeDate(c.year, c.month, c.day + intervalCount, sod)
          [] OTHER -> billingAnchor

\* the first item looked at before the top-level field
CurrentPeriodEndItemsFirst(sub) ==
    IF Len(sub.items) > 0
    THEN sub.items[1].current_period_end
    ELSE IF sub.current_period_end # 0
    THEN sub.current_period_end
    ELSE AdvanceAnchor(sub.billing_cycle_anchor,
             IF sub.plan.interval = NULL THEN "month" ELSE sub.plan.interval,
             IF sub.plan.interval_count = 0 THEN 1 ELSE sub.plan.interval_count)

\* let currentPeriodEnd: top-level field, else first item, else fallback
CurrentPeriodEnd(sub) ==
    IF sub.current_period_end # 0
    THEN sub.current_period_end
    ELSE IF Len(sub.items) > 0
    THEN sub.items[1].current_period_end
    ELSE AdvanceAnchor(sub.billing_cycle_anchor,
             IF sub.plan.interval = NULL THEN "month" ELSE sub.plan.interval,
             IF sub.plan.interval_count = 0 THEN 1 ELSE sub.plan.interval_count)

(* ------------------------ Reconciliation Procedure -------------------- *)
\* The stored procedure update_premium_status_from_webhook runs inside the
\* database; the service only calls it.

PremiumStatuses == {"active", "canceling"}

\* a 'canceling' event against a canceled row is accepted only when it is
\* newer and for the subscription that was canceled
LowerPrecedence(row, status, subscriptionId, ts) ==
    /\ row.subscription_status = "canceled"
    /\ status = "canceling"
    /\ ~(ts > row.last_webhook_timestamp
         /\ subscriptionId = row.stripe_subscription_id)

update_premium_status_from_webhook(s, prm, t) ==
    LET matches == {u \in DOMAIN s :
                       s[u].stripe_customer_id = prm.p_stripe_customer_id}
        ts      == ParseTimestamptz(prm.p_webhook_timestamp)
    IN  IF matches = {}
        THEN [error |-> TRUE, data |-> NoData, store |-> s]
        ELSE LET u   == CHOOSE x \in matches : TRUE
                 row == s[u]
             IN  IF row.last_webhook_timestamp # NoTime
                    /\ ts < row.last_webhook_timestamp
                 THEN [error |-> FALSE,
                       data |-> [updated |-> "false", reason |-> "stale",
                                 status |-> prm.p_status],
                       store |-> s]
                 ELSE IF LowerPrecedence(row, prm.p_status,
                                         prm.p_subscription_id, ts)
                 THEN [error |-> FALSE,
                       data |-> [updated |-> "false", reason |-> "precedence",
                                 status |-> prm.p_status],
                       store |-> s]
                 ELSE [error |-> FALSE,
                       data |-> [updated |-> "true", reason |-> NULL,
                                 status |-> prm.p_status],
                       store |-> [s EXCEPT ![u] =
                           [row EXCEPT
                              !.is_premium = prm.p_status \in PremiumStatuses,
                              !.subscription_status = prm.p_status,
                              !.subscription_end_date =
                                  ParseTimestamptz(prm.p_end_date),
                              !.stripe_subscription_id = prm.p_subscription_id,
                              !.last_webhook_timestamp = ts,
                              !.updated_at = t]]]

(* ---------------------------- Webhook Dispatcher ---------------------- *)

\* the switch of handleWebhook: the handler an event type is routed to
HandlerOf(type) ==
    CASE type = "checkout.session.completed" -> "handleCheckoutCompleted"
      [] type \in {"customer.subscription.created",
                   "customer.subscription.updated"} -> "handleSubscriptionUpdate"
      [] type = "customer.subscription.deleted" -> "handleSubscriptionDeleted"
      [] type \in {"invoice.paid", "invoice.payment_succeeded"} ->
             "handleInvoicePaymentSucceeded"
      [] type = "invoice.payment_failed" -> "handleInvoicePaymentFailed"
      [] OTHER -> "unhandled"

\* p_webhook_timestamp: new Date(eventTimestamp * 1000).toISOString()
WebhookTimestamp(eventTimestamp) == toISOString(eventTimestamp)

\* the period end passed as the webhook timestamp
SubscriptionUpdateParamsPeriodEndAsTimestamp(subscription, eventTimestamp) ==
    [p_stripe_customer_id |-> subscription.customer,
     p_subscription_id |-> subscription.id,
     p_status |-> NormalizeStatus(subscription),
     p_end_date |-> toISOString(CurrentPeriodEnd(subscription)),
     p_webhook_timestamp |-> toISOString(CurrentPeriodEnd(subscription))]

\* the billing cycle anchor passed as the webhook timestamp
SubscriptionUpdateParamsAnchorAsTimestamp(subscription, eventTimestamp) ==
    [p_stripe_customer_id |-> subscription.customer,
     p_subscription_id |-> subscription.id,
     p_status |-> NormalizeStatus(subscription),
     p_end_date |-> toISOString(CurrentPeriodEnd(subscription)),
     p_webhook_timestamp |-> toISOString(subscription.billing_cycle_anchor)]

\* subscription.status passed instead of the normalized status
SubscriptionUpdateParamsRawStatus(subscription, eventTimestamp) ==
    [p_stripe_customer_id |-> subscription.customer,
     p_subscription_id |-> subscription.id,
     p_status |-> subscription.status,
     p_end_date |-> toISOString(CurrentPeriodEnd(subscription)),
     p_webhook_timestamp |-> WebhookTimestamp(eventTimestamp)]

\* the arguments handleSubscriptionUpdate passes to the stored procedure
SubscriptionUpdateParams(subscription, eventTimestamp) ==
    [p_stripe_customer_id |-> subscription.customer,
     p_subscription_id |-> subscription.id,
     p_status |-> NormalizeStatus(subscription),
     p_end_date |-> toISOString(CurrentPeriodEnd(subscription)),
     p_webhook_timestamp |-> WebhookTimestamp(eventTimestamp)]

\* the payload's period end passed as the end date of a deleted subscription
SubscriptionDeletedParamsPayloadEnd(subscription, eventTimestamp) ==
    [p_stripe_customer_id |-> subscription.customer,
     p_subscription_id |-> subscription.id,
     p_status |-> "canceled",
     p_end_date |-> toISOString(subscription.current_period_end),
     p_webhook_timestamp |-> WebhookTimestamp(eventTimestamp)]

\* the arguments handleSubscriptionDeleted passes to the stored procedure
SubscriptionDeletedParams(subscription, eventTimestamp) ==
    [p_stripe_customer_id |-> subscription.customer,
     p_subscription_id |-> subscription.id,
     p_status |-> "canceled",
     p_end_date |-> toISOString(now),
     p_webhook_timestamp |-> WebhookTimestamp(eventTimestamp)]

\* supabase.rpc('update_premium_status_from_webhook', prm): {data, error}
Rpc(prm) == update_premium_status_from_webhook(store, prm, now)

\* A subscription request is the event and the rpc arguments the handler
\* computes from it before its first await.
UpdateRequest(ev) ==
    [type |-> ev.type, created |-> ev.created, object |-> ev.object,
     prm |-> SubscriptionUpdateParams(ev.object, ev.created)]

\* the table after handleSubscriptionUpdate has handled rq
AfterSubscriptionUpdate(rq) == Rpc(rq.prm).store

\* the table after handleSubscriptionDeleted has handled ev
AfterSubscriptionDeleted(ev) ==
    Rpc(SubscriptionDeletedParams(ev.object, ev.created)).store

\* the request count set back to zero when the event makes the record premium
handleSubscriptionUpdateResetsCount(rq) ==
    /\ HandlerOf(rq.type) = "handleSubscriptionUpdate"
    /\ store' = [u \in DOMAIN store |->
                    IF AfterSubscriptionUpdate(rq)[u].is_premium
                       /\ ~store[u].is_premium
                    THEN [AfterSubscriptionUpdate(rq)[u]
                              EXCEPT !.request_count = 0]
                    ELSE AfterSubscriptionUpdate(rq)[u]]
    /\ UNCHANGED <<calls, now>>

\* customer.subscription.created / customer.subscription.updated
handleSubscriptionUpdate(rq) ==
    /\ HandlerOf(rq.type) = "handleSubscriptionUpdate"
    /\ store' = AfterSubscriptionUpdate(rq)
    /\ UNCHANGED <<calls, now>>

\* customer.subscription.deleted
handleSubscriptionDeleted(ev) ==
    /\ HandlerOf(ev.type) = "handleSubscriptionDeleted"
    /\ store' = AfterSubscriptionDeleted(ev)
    /\ UNCHANGED <<calls, now>>

\* A subscription handler as a call in flight: its arguments are computed
\* when the rpc is issued and the procedure runs when the database gets to it.
RpcCall(customerId, prm) ==
    [pc |-> "rpc", op |-> "subscription", userId |-> NULL,
     customerId |-> customerId, isPremium |-> FALSE, currentCount |-> 0,
     result |-> NoResult, prm |-> prm]

\* handleSubscriptionUpdate entered with the event's subscription object
ReceivedCall(ev) ==
    [pc |-> "received", op |-> "subscription", userId |-> NULL,
     customerId |-> ev.object.customer, isPremium |-> FALSE,
     currentCount |-> 0, result |-> NoResult, event |-> ev]

\* handleSubscriptionUpdate from its entry to the rpc it issues: status and
\* period end are computed and passed as the rpc's arguments
normalizeSubscription(p) ==
    /\ calls[p].pc = "received"
    /\ LET ev == calls[p].event IN
       calls' = [calls EXCEPT ![p] =
           [pc |-> "rpc", op |-> "subscription", userId |-> NULL,
            customerId |-> ev.object.customer, isPremium |-> FALSE,
            currentCount |-> 0, result |-> NoResult, event |-> ev,
            prm |-> SubscriptionUpdateParams(ev.object, ev.created)]]
    /\ UNCHANGED <<store, now>>

\* handleSubscriptionUpdate up to its await
subscriptionUpdateCall(p, rq) ==
    /\ HandlerOf(rq.type) = "handleSubscriptionUpdate"
    /\ Free(p)
    /\ calls' = [calls EXCEPT ![p] = RpcCall(rq.object.customer, rq.prm)]
    /\ UNCHANGED <<store, now>>

\* handleSubscriptionDeleted up to its await
subscriptionDeletedCall(p, ev) ==
    /\ HandlerOf(ev.type) = "handleSubscriptionDeleted"
    /\ Free(p)
    /\ calls' = [calls EXCEPT ![p] =
           RpcCall(ev.object.customer,
                   SubscriptionDeletedParams(ev.object, ev.created))]
    /\ UNCHANGED <<store, now>>

\* the table after the arguments are written to the matching rows with no
\* decision taken
WrittenUnchecked(prm) ==
    [u \in DOMAIN store |->
        IF store[u].stripe_customer_id = prm.p_stripe_customer_id
        THEN [store[u] EXCEPT
                 !.is_premium = prm.p_status \in {"active", "canceling"},
                 !.subscription_status = prm.p_status,
                 !.subscription_end_date = ParseTimestamptz(prm.p_end_date),
                 !.stripe_subscription_id = prm.p_subscription_id,
                 !.last_webhook_timestamp =
                     ParseTimestamptz(prm.p_webhook_timestamp),
                 !.updated_at = now]
        ELSE store[u]]

\* the handler writing the row itself instead of calling the procedure
rpcCompleteUnchecked(p) ==
    /\ calls[p].pc = "rpc"
    /\ store' = WrittenUnchecked(calls[p].prm)
    /\ calls' = [calls EXCEPT ![p] =
           Finish([IdleCall EXCEPT !.op = "subscription",
                                   !.customerId = calls[p].customerId],
                  Returned)]
    /\ UNCHANGED now

\* the rpc's error not looked at: the handler returns whatever it was
rpcCompleteErrorSwallowed(p) ==
    /\ calls[p].pc = "rpc"
    /\ store' = Rpc(calls[p].prm).store
    /\ calls' = [calls EXCEPT ![p] =
           Finish([IdleCall EXCEPT !.op = "subscription",
                                   !.customerId = calls[p].customerId],
                  Returned)]
    /\ UNCHANGED now

\* the rpc runs and the handler resumes: throw on error, else log and return
rpcComplete(p) ==
    /\ calls[p].pc = "rpc"
    /\ store' = Rpc(calls[p].prm).store
    /\ calls' = [calls EXCEPT ![p] =
           Finish([IdleCall EXCEPT !.op = "subscription",
                                   !.customerId = calls[p].customerId],
                  IF Rpc(calls[p].prm).error THEN Thrown ELSE Returned)]
    /\ UNCHANGED now

\* a subscription of cus_1, active and not scheduled to cancel
SampleSubscription ==
    [customer |-> "cus_1", id |-> "sub_1", status |-> "active",
     cancel_at_period_end |-> FALSE, current_period_end |-> 40,
     items |-> << >>, billing_cycle_anchor |-> 60,
     plan |-> [interval |-> NULL, interval_count |-> 0]]

\* the default branch falling into the deleted case
handleLogOnlyAsDeletion(type) ==
    /\ HandlerOf(type) \in {"handleInvoicePaymentSucceeded",
                            "handleInvoicePaymentFailed", "unhandled"}
    /\ store' = AfterSubscriptionDeleted(
                    [type |-> "customer.subscription.deleted",
                     created |-> MaxEventTime, object |-> SampleSubscription])
    /\ UNCHANGED <<calls, now>>

\* handleInvoicePaymentSucceeded / handleInvoicePaymentFailed / default:
\* the event is logged and nothing is stored
handleLogOnly(type) ==
    /\ HandlerOf(type) \in {"handleInvoicePaymentSucceeded",
                            "handleInvoicePaymentFailed", "unhandled"}
    /\ UNCHANGED <<store, calls, now>>

\* the payload handled although its signature was refused
webhookUnverified(signature) ==
    /\ signature \in {"missing", "invalid"}
    /\ store' = AfterSubscriptionUpdate(
                    UpdateRequest([type |-> "customer.subscription.updated",
                                   created |-> MaxEventTime,
                                   object |-> SampleSubscription]))
    /\ UNCHANGED <<calls, now>>

\* a request whose stripe-signature header is missing, or whose signature
\* constructEvent refuses: no handler runs
webhookRejected(signature) ==
    /\ signature \in {"missing", "invalid"}
    /\ UNCHANGED <<store, calls, now>>

\* POST /webhook/stripe: 400 when handleWebhook threw, else 200
WebhookResponse(threw) == IF threw THEN 400 ELSE 200

\* the rpc's error not looked at
SubscriptionOutcomeErrorIgnored(type, created, prm) ==
    [type |-> type, created |-> created, data |-> Rpc(prm).data,
     http |-> WebhookResponse(FALSE)]

\* a skipped update thrown as an error
SubscriptionOutcomeSkipThrown(type, created, prm) ==
    [type |-> type, created |-> created, data |-> Rpc(prm).data,
     http |-> WebhookResponse(Rpc(prm).error
                              \/ Rpc(prm).data.updated = "false")]

\* what a subscription event's request logs and answers
SubscriptionOutcome(type, created, prm) ==
    LET r == Rpc(prm)
    IN  [type |-> type, created |-> created, data |-> r.data,
         http |-> WebhookResponse(r.error)]

\* the handler going on without the userId check
handleCheckoutCompletedUnguarded(p, type, session) ==
    /\ HandlerOf(type) = "handleCheckoutCompleted"
    /\ Free(p)
    /\ calls' = [calls EXCEPT ![p] =
           [IdleCall EXCEPT !.pc = "ensure_select", !.op = "checkout",
                            !.userId = session.userId,
                            !.customerId = session.customer]]
    /\ UNCHANGED <<store, now>>

\* checkout.session.completed: the handler begins
handleCheckoutCompleted(p, type, session) ==
    /\ HandlerOf(type) = "handleCheckoutCompleted"
    /\ Free(p)
    /\ calls' = [calls EXCEPT ![p] =
           IF session.userId = NULL
           THEN Finish([IdleCall EXCEPT !.op = "checkout",
                                        !.customerId = session.customer],
                       Returned)
           ELSE [IdleCall EXCEPT !.pc = "ensure_select", !.op = "checkout",
                                 !.userId = session.userId,
                                 !.customerId = session.customer]]
    /\ UNCHANGED <<store, now>>

\* the checkout completion granting premium itself
checkoutUpdateCustomerGrantsPremium(p) ==
    /\ calls[p].pc = "update_customer"
    /\ LET u == calls[p].userId IN
       store' = IF HasRow(u)
                THEN [store EXCEPT ![u].stripe_customer_id = calls[p].customerId,
                                   ![u].is_premium = TRUE,
                                   ![u].updated_at =
                                       ParseTimestamptz(toISOString(now))]
                ELSE store
    /\ calls' = [calls EXCEPT ![p] = Finish(calls[p], Returned)]
    /\ UNCHANGED now

\* update({stripe_customer_id: customerId, updated_at}).eq('user_id', userId)
checkoutUpdateCustomer(p) ==
    /\ calls[p].pc = "update_customer"
    /\ LET u == calls[p].userId IN
       store' = IF HasRow(u)
                THEN [store EXCEPT ![u].stripe_customer_id = calls[p].customerId,
                                   ![u].updated_at =
                                       ParseTimestamptz(toISOString(now))]
                ELSE store
    /\ calls' = [calls EXCEPT ![p] = Finish(calls[p], Returned)]
    /\ UNCHANGED now

(* ------------------------- checkout and status calls ----------------- *)

\* createCheckoutSession: the call begins with ensureUserRecord
createCheckoutSession(p, u) ==
    /\ Free(p)
    /\ calls' = [calls EXCEPT ![p] =
           [IdleCall EXCEPT !.pc = "ensure_select", !.op = "create_session",
                            !.userId = u]]
    /\ UNCHANGED <<store, now>>

\* select('stripe_customer_id'); with a customer id the session is created
\* for it and returned
createCheckoutSessionRead(p) ==
    /\ calls[p].pc = "read_customer"
    /\ LET u  == calls[p].userId
           id == IF HasRow(u) THEN store[u].stripe_customer_id ELSE NULL
       IN  calls' = [calls EXCEPT ![p] =
               IF id # NULL
               THEN Finish([calls[p] EXCEPT !.customerId = id], Returned)
               ELSE [calls[p] EXCEPT !.pc = "create_customer"]]
    /\ UNCHANGED <<store, now>>

\* the customer ids the table or a call already holds
KnownCustomers ==
    {store[u].stripe_customer_id : u \in DOMAIN store}
    \cup {calls[q].customerId : q \in Slots}

\* stripe.customers.create: the provider answers with a new customer id
createCheckoutSessionCustomer(p) ==
    /\ calls[p].pc = "create_customer"
    /\ \E id \in Customers \ KnownCustomers :
          calls' = [calls EXCEPT ![p].pc = "write_customer",
                                 ![p].customerId = id]
    /\ UNCHANGED <<store, now>>

\* update({stripe_customer_id: customerId}).eq('user_id', userId), then the
\* session is created and returned
createCheckoutSessionWrite(p) ==
    /\ calls[p].pc = "write_customer"
    /\ LET u == calls[p].userId IN
       store' = IF HasRow(u)
                THEN [store EXCEPT ![u].stripe_customer_id = calls[p].customerId]
                ELSE store
    /\ calls' = [calls EXCEPT ![p] = Finish(calls[p], Returned)]
    /\ UNCHANGED now

\* the session a finished createCheckoutSession call returned
CreatedSession(p) ==
    [userId |-> calls[p].userId, customer |-> calls[p].customerId]

\* the user pays: checkout.session.completed arrives for that session
checkoutOfCreatedSession(p) ==
    /\ calls[p].pc = "done"
    /\ calls[p].op = "create_session"
    /\ calls[p].result.outcome = "return"
    /\ handleCheckoutCompleted(p, "checkout.session.completed",
                               CreatedSession(p))

\* getSubscriptionStatus: the call begins
getSubscriptionStatus(p, u) ==
    /\ Free(p)
    /\ calls' = [calls EXCEPT ![p] =
           [IdleCall EXCEPT !.pc = "status_select", !.op = "status",
                            !.userId = u]]
    /\ UNCHANGED <<store, now>>

\* select('*').eq('user_id', userId).single(): the row's fields are
\* returned, or ensureUserRecord is called when there is no row
getSubscriptionStatusSelect(p) ==
    /\ calls[p].pc = "status_select"
    /\ LET u == calls[p].userId IN
       calls' = [calls EXCEPT ![p] =
           IF HasRow(u)
           THEN Finish(calls[p],
                    [outcome |-> "return", allowed |-> FALSE,
                     isPremium |-> store[u].is_premium,
                     requestCount |-> store[u].request_count, limit |-> 0])
           ELSE [calls[p] EXCEPT !.pc = "ensure_select"]]
    /\ UNCHANGED <<store, now>>

\* return {isPremium: false, requestCount: 0, ...} after ensureUserRecord
getSubscriptionStatusDefault(p) ==
    /\ calls[p].pc = "status_default"
    /\ calls' = [calls EXCEPT ![p] = Finish(calls[p], Returned)]
    /\ UNCHANGED <<store, now>>

(* ---------------------------- the dispatcher's switch ----------------- *)
\* The switch of handleWebhook as its clauses in order: the case label, the
\* handlers its statements call, and whether the clause ends with break.
\* A clause without break falls through into the next one; the default
\* clause comes last and calls no handler.

SwitchClause(label, body, brk) == [label |-> label, body |-> body, brk |-> brk]

\* the same clauses with the break after handleSubscriptionDeleted left out
SwitchClausesMissingBreak ==
    <<SwitchClause("checkout.session.completed",
                   <<"handleCheckoutCompleted">>, TRUE),
      SwitchClause("customer.subscription.created", << >>, FALSE),
      SwitchClause("customer.subscription.updated",
                   <<"handleSubscriptionUpdate">>, TRUE),
      SwitchClause("customer.subscription.deleted",
                   <<"handleSubscriptionDeleted">>, FALSE),
      SwitchClause("invoice.paid", << >>, FALSE),
      SwitchClause("invoice.payment_succeeded",
                   <<"handleInvoicePaymentSucceeded">>, TRUE),
      SwitchClause("invoice.payment_failed",
                   <<"handleInvoicePaymentFailed">>, TRUE)>>

SwitchClauses ==
    <<SwitchClause("checkout.session.completed",
                   <<"handleCheckoutCompleted">>, TRUE),
      SwitchClause("customer.subscription.created", << >>, FALSE),
      SwitchClause("customer.subscription.updated",
                   <<"handleSubscriptionUpdate">>, TRUE),
      SwitchClause("customer.subscription.deleted",
                   <<"handleSubscriptionDeleted">>, TRUE),
      SwitchClause("invoice.paid", << >>, FALSE),
      SwitchClause("invoice.payment_succeeded",
                   <<"handleInvoicePaymentSucceeded">>, TRUE),
      SwitchClause("invoice.payment_failed",
                   <<"handleInvoicePaymentFailed">>, TRUE)>>

RECURSIVE RunFrom(_, _)
\* the handlers called from clause i on, up to the first break
RunFrom(clauses, i) ==
    IF i > Len(clauses)
    THEN << >>
    ELSE clauses[i].body \o
             (IF clauses[i].brk THEN << >> ELSE RunFrom(clauses, i + 1))

\* the handlers a switch over these clauses calls for an event type
SwitchRun(clauses, type) ==
    LET hits == {i \in 1..Len(clauses) : clauses[i].label = type}
    IN  IF hits = {}
        THEN << >>
        ELSE RunFrom(clauses, CHOOSE i \in hits : \A j \in hits : i <= j)

HandlersRunMissingBreak(type) == SwitchRun(SwitchClausesMissingBreak, type)

\* the handlers handleWebhook calls for an event of this type, in order
HandlersRun(type) == SwitchRun(SwitchClauses, type)

\* handleCheckoutCompleted from its entry to its end, on a table no other
\* call touches meanwhile
CheckoutCompleted(s, session, t) ==
    IF session.userId = NULL
    THEN s
    ELSE LET u  == session.userId
             s1 == IF u \in DOMAIN s THEN s ELSE InsertRow(s, u)
         IN  [s1 EXCEPT ![u].stripe_customer_id = session.customer,
                        ![u].updated_at = ParseTimestamptz(toISOString(t))]

\* handleWebhook past the signature check: the event is classified
DispatchedCall(ev) ==
    [pc |-> "dispatched", op |-> "webhook", userId |-> NULL,
     customerId |-> NULL, isPremium |-> FALSE, currentCount |-> 0,
     result |-> NoResult, event |-> ev, handlers |-> HandlersRun(ev.type),
     ran |-> << >>]

dispatchEvent(p, ev) ==
    /\ Free(p)
    /\ calls' = [calls EXCEPT ![p] = DispatchedCall(ev)]
    /\ UNCHANGED <<store, now>>

\* what the next handler of the switch does to the table, and whether it
\* throws
HandlerEffect(h, ev) ==
    CASE h = "handleCheckoutCompleted" ->
             [store |-> CheckoutCompleted(store, ev.object, now),
              threw |-> FALSE]
      [] h = "handleSubscriptionUpdate" ->
             [store |-> Rpc(SubscriptionUpdateParams(ev.object, ev.created))
                            .store,
              threw |-> Rpc(SubscriptionUpdateParams(ev.object, ev.created))
                            .error]
      [] h = "handleSubscriptionDeleted" ->
             [store |-> Rpc(SubscriptionDeletedParams(ev.object, ev.created))
                            .store,
              threw |-> Rpc(SubscriptionDeletedParams(ev.object, ev.created))
                            .error]
      [] OTHER -> [store |-> store, threw |-> FALSE]

\* await this.handle...(event.data.object, event.created)
runHandler(p) ==
    /\ calls[p].pc = "dispatched"
    /\ calls[p].handlers # << >>
    /\ LET h   == Head(calls[p].handlers)
           eff == HandlerEffect(h, calls[p].event)
           c   == [calls[p] EXCEPT !.handlers = Tail(@),
                                   !.ran = Append(@, h)]
       IN  /\ store' = eff.store
           /\ calls' = [calls EXCEPT ![p] =
                  IF eff.threw THEN Finish(c, Thrown) ELSE c]
    /\ UNCHANGED now

\* the switch is left and handleWebhook returns
dispatchReturn(p) ==
    /\ calls[p].pc = "dispatched"
    /\ calls[p].handlers = << >>
    /\ calls' = [calls EXCEPT ![p] = Finish(calls[p], Returned)]
    /\ UNCHANGED <<store, now>>

(* ------------------------------- API routes -------------------------- *)
\* A route reads its fields from the request body; NULL is a field the
\* body does not have.

Emails == {"a@porkicoder.com"}

\* the call answered res.status(400) by the route itself
BadRequest == [NoResult EXCEPT !.outcome = "bad_request"]

Refused(op) == Finish([IdleCall EXCEPT !.op = op], BadRequest)

\* the status of the route's response to a finished call
ApiResponse(c) ==
    CASE c.result.outcome = "bad_request" -> 400
      [] c.result.outcome = "throw" -> 500
      [] c.op = "validate" /\ ~c.result.allowed -> 403
      [] OTHER -> 200

\* POST /api/validate-request
postValidateRequest(p, userId) ==
    IF userId = NULL
    THEN /\ Free(p)
         /\ calls' = [calls EXCEPT ![p] = Refused("validate")]
         /\ UNCHANGED <<store, now>>
    ELSE validateAndIncrementRequest(p, userId)

\* the body refused only when it has neither field
postCreateCheckoutSessionEitherField(p, userId, email) ==
    IF userId = NULL /\ email = NULL
    THEN /\ Free(p)
         /\ calls' = [calls EXCEPT ![p] = Refused("create_session")]
         /\ UNCHANGED <<store, now>>
    ELSE createCheckoutSession(p, userId)

\* POST /api/create-checkout-session
postCreateCheckoutSession(p, userId, email) ==
    IF userId = NULL \/ email = NULL
    THEN /\ Free(p)
         /\ calls' = [calls EXCEPT ![p] = Refused("create_session")]
         /\ UNCHANGED <<store, now>>
    ELSE createCheckoutSession(p, userId)

\* POST /api/create-portal-session
postCreatePortalSession(p, customerId) ==
    /\ Free(p)
    /\ calls' = [calls EXCEPT ![p] =
           IF customerId = NULL
           THEN Refused("portal")
           ELSE [IdleCall EXCEPT !.pc = "portal_session", !.op = "portal",
                                 !.customerId = customerId]]
    /\ UNCHANGED <<store, now>>

\* createPortalSession: stripe.billingPortal.sessions.create, returned
createPortalSession(p) ==
    /\ calls[p].pc = "portal_session"
    /\ calls' = [calls EXCEPT ![p] = Finish(calls[p], Returned)]
    /\ UNCHANGED <<store, now>>

(* ------------------------------ store errors ------------------------- *)
\* A store call does not throw: it resolves to {data, error}, and a failed
\* call has data null.  A call that has met a store error carries the mark
\* storeError.

StoreFailed(c) == "storeError" \in DOMAIN c

WithStoreError(c) == ("storeError" :> TRUE) @@ c

\* ensureUserRecord: the select fails; only data is read, so the row is
\* taken to be absent and the insert follows
ensureUserRecordSelectError(p) ==
    /\ calls[p].pc = "ensure_select"
    /\ calls' = [calls EXCEPT ![p] =
           WithStoreError([calls[p] EXCEPT !.pc = "ensure_insert"])]
    /\ UNCHANGED <<store, now>>

\* ensureUserRecord: the insert fails and its error is thrown
ensureUserRecordInsertError(p) ==
    /\ calls[p].pc = "ensure_insert"
    /\ calls' = [calls EXCEPT ![p] =
           WithStoreError(Finish(calls[p], Thrown))]
    /\ UNCHANGED <<store, now>>

\* createCheckoutSession: the select fails; userData is null, so the user
\* is taken to have no customer id
createCheckoutSessionReadError(p) ==
    /\ calls[p].pc = "read_customer"
    /\ calls' = [calls EXCEPT ![p] =
           WithStoreError([calls[p] EXCEPT !.pc = "create_customer"])]
    /\ UNCHANGED <<store, now>>

\* stripe.customers.create rejects: the call throws
createCheckoutSessionCustomerError(p) ==
    /\ calls[p].pc = "create_customer"
    /\ calls' = [calls EXCEPT ![p] = Finish(calls[p], Thrown)]
    /\ UNCHANGED <<store, now>>

\* createCheckoutSession: the update fails; its outcome is not looked at,
\* the session is created and returned
createCheckoutSessionWriteError(p) ==
    /\ calls[p].pc = "write_customer"
    /\ calls' = [calls EXCEPT ![p] =
           WithStoreError(Finish(calls[p], Returned))]
    /\ UNCHANGED <<store, now>>

\* POST /api/create-checkout-session: 500 when the service threw, else 200
CheckoutSessionResponse(c) ==
    IF c.result.outcome = "throw" THEN 500 ELSE 200

(* ---------------------------- specifications -------------------------- *)
\* nCalls, served and lastWebhook are history variables: they record what
\* has happened and no action reads them, except the cap on nCalls.

Unobserved == UNCHANGED <<nCalls, served, lastWebhook>>

LogOnlyTypes ==
    {"invoice.paid", "invoice.payment_succeeded", "invoice.payment_failed",
     "charge.refunded"}

\* The quota gate under concurrency: NumSlots calls in flight at once, and
\* the webhook events that link a customer and switch the premium flag.
\* The clock stands still: every step falls within one second.
QuotaSessions == [userId : Users, customer : {"cus_1"}]

QuotaSubscriptions ==
    [customer : {"cus_1"}, id : {"sub_1"}, status : {"active", "canceled"},
     cancel_at_period_end : {FALSE}, current_period_end : {40},
     items : {<< >>}, billing_cycle_anchor : {60},
     plan : {[interval |-> NULL, interval_count |-> 0]}]

QuotaEventTimes == {1}

QuotaRequests ==
    {UpdateRequest(ev) :
        ev \in [type : {"customer.subscription.updated"},
                object : QuotaSubscriptions, created : QuotaEventTimes]}

SeqRequests ==
    {UpdateRequest(ev) :
        ev \in [type : {"customer.subscription.updated"},
                object : QuotaSubscriptions, created : EventTimes]}

Start(p) ==
    /\ \E u \in Users : validateAndIncrementRequest(p, u)
    /\ Unobserved

EnsureSelect(p) == ensureUserRecordSelect(p) /\ Unobserved

EnsureInsert(p) == ensureUserRecordInsert(p) /\ Unobserved

Fetch(p) == validateFetch(p) /\ Unobserved

Update(p) == validateUpdate(p) /\ Unobserved

Checkout(p) ==
    /\ \E s \in QuotaSessions :
          handleCheckoutCompleted(p, "checkout.session.completed", s)
    /\ Unobserved

UpdateCustomer(p) == checkoutUpdateCustomer(p) /\ Unobserved

SubscriptionUpdated ==
    /\ \E rq \in QuotaRequests : handleSubscriptionUpdate(rq)
    /\ Unobserved

Next ==
    \/ \E p \in Slots : Start(p)
    \/ \E p \in Slots : EnsureSelect(p)
    \/ \E p \in Slots : EnsureInsert(p)
    \/ \E p \in Slots : Fetch(p)
    \/ \E p \in Slots : Update(p)
    \/ \E p \in Slots : Checkout(p)
    \/ \E p \in Slots : UpdateCustomer(p)
    \/ SubscriptionUpdated

Spec == Init /\ [][Next]_vars

\* One request at a time: a single slot, webhook events delivered between
\* calls, the clock running, and the calls counted.
SeqSlot == CHOOSE p \in Slots : \A q \in Slots : p <= q

SeqTick == Tick /\ Unobserved

SeqStart ==
    /\ nCalls < MaxCalls
    /\ \E u \in Users : validateAndIncrementRequest(SeqSlot, u)
    /\ nCalls' = nCalls + 1
    /\ UNCHANGED <<served, lastWebhook>>

SeqEnsureSelect == ensureUserRecordSelect(SeqSlot) /\ Unobserved

SeqEnsureInsert == ensureUserRecordInsert(SeqSlot) /\ Unobserved

SeqFetch == validateFetch(SeqSlot) /\ Unobserved

SeqUpdate ==
    /\ validateUpdate(SeqSlot)
    /\ served' = served + 1
    /\ UNCHANGED <<nCalls, lastWebhook>>

SeqCheckout ==
    /\ \E s \in QuotaSessions :
          handleCheckoutCompleted(SeqSlot, "checkout.session.completed", s)
    /\ Unobserved

SeqUpdateCustomer == checkoutUpdateCustomer(SeqSlot) /\ Unobserved

SeqSubscriptionUpdated ==
    /\ Free(SeqSlot)
    /\ \E rq \in SeqRequests : handleSubscriptionUpdate(rq)
    /\ Unobserved

SeqNext ==
    \/ SeqTick
    \/ SeqStart
    \/ SeqEnsureSelect
    \/ SeqEnsureInsert
    \/ SeqFetch
    \/ SeqUpdate
    \/ SeqCheckout
    \/ SeqUpdateCustomer
    \/ SeqSubscriptionUpdated

SeqSpec == Init /\ [][SeqNext]_vars

\* The webhook endpoint: events of every type, in any order and any number
\* of times, each request's outcome logged; no quota call runs and the
\* clock stands still.
WebhookSessions == [userId : Users \cup {NULL}, customer : Customers]

\* customer.subscription.updated objects: every status with and without a
\* scheduled cancellation, the period end at the top level or in the items
WebhookSubscriptions ==
    [customer : {"cus_1"}, id : SubscriptionIds,
     status : SubscriptionStatuses, cancel_at_period_end : BOOLEAN,
     current_period_end : {0, 40}, items : {<<[current_period_end |-> 50]>>},
     billing_cycle_anchor : {60},
     plan : {[interval |-> NULL, interval_count |-> 0]}]

\* customer.subscription.created / .deleted objects
PlainSubscriptions ==
    [customer : {"cus_1"}, id : SubscriptionIds, status : {"active"},
     cancel_at_period_end : {FALSE}, current_period_end : {40},
     items : {<<[current_period_end |-> 50]>>}, billing_cycle_anchor : {60},
     plan : {[interval |-> NULL, interval_count |-> 0]}]

SubscriptionUpdateEvents ==
    [type : {"customer.subscription.updated"}, object : WebhookSubscriptions,
     created : EventTimes]
    \cup [type : {"customer.subscription.created"},
          object : PlainSubscriptions, created : EventTimes]

SubscriptionDeletedEvents ==
    [type : {"customer.subscription.deleted"}, object : PlainSubscriptions,
     created : EventTimes]

SubscriptionUpdateRequests ==
    {UpdateRequest(ev) : ev \in SubscriptionUpdateEvents}

NoCounts == UNCHANGED <<nCalls, served>>

WhCheckout ==
    /\ \E s \in WebhookSessions :
          handleCheckoutCompleted(SeqSlot, "checkout.session.completed", s)
    /\ Unobserved

WhEnsureSelect == ensureUserRecordSelect(SeqSlot) /\ Unobserved

WhEnsureInsert == ensureUserRecordInsert(SeqSlot) /\ Unobserved

WhUpdateCustomer == checkoutUpdateCustomer(SeqSlot) /\ Unobserved

WhSubscriptionUpdate ==
    /\ \E rq \in SubscriptionUpdateRequests :
          /\ handleSubscriptionUpdate(rq)
          /\ lastWebhook' = SubscriptionOutcome(rq.type, rq.created, rq.prm)
    /\ NoCounts

WhSubscriptionDeleted ==
    /\ \E ev \in SubscriptionDeletedEvents :
          /\ handleSubscriptionDeleted(ev)
          /\ lastWebhook' = SubscriptionOutcome(ev.type, ev.created,
                 SubscriptionDeletedParams(ev.object, ev.created))
    /\ NoCounts

WhLogOnly ==
    /\ \E t \in LogOnlyTypes, c \in EventTimes :
          /\ handleLogOnly(t)
          /\ lastWebhook' = [type |-> t, created |-> c, data |-> NoData,
                             http |-> WebhookResponse(FALSE)]
    /\ NoCounts

WhRejected ==
    /\ \E sig \in {"missing", "invalid"} :
          /\ webhookRejected(sig)
          /\ lastWebhook' = [type |-> sig, created |-> NoTime,
                             data |-> NoData,
                             http |-> WebhookResponse(TRUE)]
    /\ NoCounts

WebhookNext ==
    \/ WhCheckout
    \/ WhEnsureSelect
    \/ WhEnsureInsert
    \/ WhUpdateCustomer
    \/ WhSubscriptionUpdate
    \/ WhSubscriptionDeleted
    \/ WhLogOnly
    \/ WhRejected

WebhookSpec == Init /\ [][WebhookNext]_vars

\* The webhook endpoint over time: the clock runs between deliveries, and
\* one subscription is created, scheduled to cancel, canceled and deleted in
\* any order.
EndpointSubscriptions ==
    [customer : {"cus_1"}, id : {"sub_1"}, status : {"active", "canceled"},
     cancel_at_period_end : BOOLEAN, current_period_end : {40},
     items : {<< >>}, billing_cycle_anchor : {60},
     plan : {[interval |-> NULL, interval_count |-> 0]}]

EndpointUpdateRequests ==
    {UpdateRequest(ev) :
        ev \in [type : {"customer.subscription.updated"},
                object : EndpointSubscriptions, created : EventTimes]}

EndpointDeletedEvents ==
    [type : {"customer.subscription.deleted"},
     object : {o \in EndpointSubscriptions :
                  o.status = "active" /\ ~o.cancel_at_period_end},
     created : EventTimes]

EpSubscriptionUpdate ==
    /\ \E rq \in EndpointUpdateRequests :
          /\ handleSubscriptionUpdate(rq)
          /\ lastWebhook' = SubscriptionOutcome(rq.type, rq.created, rq.prm)
    /\ NoCounts

EpSubscriptionDeleted ==
    /\ \E ev \in EndpointDeletedEvents :
          /\ handleSubscriptionDeleted(ev)
          /\ lastWebhook' = SubscriptionOutcome(ev.type, ev.created,
                 SubscriptionDeletedParams(ev.object, ev.created))
    /\ NoCounts

EndpointNext ==
    \/ SeqTick
    \/ WhCheckout
    \/ WhEnsureSelect
    \/ WhEnsureInsert
    \/ WhUpdateCustomer
    \/ EpSubscriptionUpdate
    \/ EpSubscriptionDeleted
    \/ WhLogOnly
    \/ WhRejected

EndpointSpec == Init /\ [][EndpointNext]_vars

\* Concurrent webhook deliveries: NumSlots handlers in flight at once for
\* one customer's subscription; the clock stands still.
DeliverySubscriptions ==
    {o \in EndpointSubscriptions : o.status = "active"}

DeliveryUpdateRequests ==
    {UpdateRequest(ev) :
        ev \in [type : {"customer.subscription.updated"},
                object : DeliverySubscriptions, created : EventTimes]}

DeliverUpdate(p) ==
    /\ \E rq \in DeliveryUpdateRequests : subscriptionUpdateCall(p, rq)
    /\ Unobserved

DeliverDeleted(p) ==
    /\ \E ev \in EndpointDeletedEvents : subscriptionDeletedCall(p, ev)
    /\ Unobserved

RpcComplete(p) == rpcComplete(p) /\ Unobserved

DeliveryNext ==
    \/ \E p \in Slots : Checkout(p)
    \/ \E p \in Slots : EnsureSelect(p)
    \/ \E p \in Slots : EnsureInsert(p)
    \/ \E p \in Slots : UpdateCustomer(p)
    \/ \E p \in Slots : DeliverUpdate(p)
    \/ \E p \in Slots : DeliverDeleted(p)
    \/ \E p \in Slots : RpcComplete(p)

DeliverySpec == Init /\ [][DeliveryNext]_vars

\* The calls that create and link a user's record, NumSlots at once:
\* validate-request, create-checkout-session, subscription-status and the
\* checkout.session.completed events of the sessions created.  The clock
\* stands still.
CreateSession(p) ==
    /\ \E u \in Users : createCheckoutSession(p, u)
    /\ Unobserved

ReadCustomer(p) == createCheckoutSessionRead(p) /\ Unobserved

CreateCustomer(p) == createCheckoutSessionCustomer(p) /\ Unobserved

WriteCustomer(p) == createCheckoutSessionWrite(p) /\ Unobserved

CompleteCheckout(p) == checkoutOfCreatedSession(p) /\ Unobserved

GetStatus(p) ==
    /\ \E u \in Users : getSubscriptionStatus(p, u)
    /\ Unobserved

StatusSelect(p) == getSubscriptionStatusSelect(p) /\ Unobserved

StatusDefault(p) == getSubscriptionStatusDefault(p) /\ Unobserved

AccountNext ==
    \/ \E p \in Slots : Start(p)
    \/ \E p \in Slots : EnsureSelect(p)
    \/ \E p \in Slots : EnsureInsert(p)
    \/ \E p \in Slots : Fetch(p)
    \/ \E p \in Slots : Update(p)
    \/ \E p \in Slots : CreateSession(p)
    \/ \E p \in Slots : ReadCustomer(p)
    \/ \E p \in Slots : CreateCustomer(p)
    \/ \E p \in Slots : WriteCustomer(p)
    \/ \E p \in Slots : CompleteCheckout(p)
    \/ \E p \in Slots : UpdateCustomer(p)
    \/ \E p \in Slots : GetStatus(p)
    \/ \E p \in Slots : StatusSelect(p)
    \/ \E p \in Slots : StatusDefault(p)

AccountSpec == Init /\ [][AccountNext]_vars

\* create-checkout-session calls, NumSlots at once, with a store or a
\* provider that can fail at any call.  The clock stands still.
EnsureSelectError(p) == ensureUserRecordSelectError(p) /\ Unobserved

EnsureInsertError(p) == ensureUserRecordInsertError(p) /\ Unobserved

ReadCustomerError(p) == createCheckoutSessionReadError(p) /\ Unobserved

CreateCustomerError(p) == createCheckoutSessionCustomerError(p) /\ Unobserved

WriteCustomerError(p) == createCheckoutSessionWriteError(p) /\ Unobserved

OutageNext ==
    \/ \E p \in Slots : CreateSession(p)
    \/ \E p \in Slots : EnsureSelect(p)
    \/ \E p \in Slots : EnsureSelectError(p)
    \/ \E p \in Slots : EnsureInsert(p)
    \/ \E p \in Slots : EnsureInsertError(p)
    \/ \E p \in Slots : ReadCustomer(p)
    \/ \E p \in Slots : ReadCustomerError(p)
    \/ \E p \in Slots : CreateCustomer(p)
    \/ \E p \in Slots : CreateCustomerError(p)
    \/ \E p \in Slots : WriteCustomer(p)
    \/ \E p \in Slots : WriteCustomerError(p)

OutageSpec == Init /\ [][OutageNext]_vars

\* The API routes with bodies that have and lack their fields, one
\* request at a time.  The clock stands still.
PostValidate ==
    /\ \E u \in Users \cup {NULL} : postValidateRequest(SeqSlot, u)
    /\ Unobserved

PostCheckoutSession ==
    /\ \E u \in Users \cup {NULL}, e \in Emails \cup {NULL} :
          postCreateCheckoutSession(SeqSlot, u, e)
    /\ Unobserved

PostPortalSession ==
    /\ \E c \in Customers \cup {NULL} : postCreatePortalSession(SeqSlot, c)
    /\ Unobserved

PortalSession == createPortalSession(SeqSlot) /\ Unobserved

ApiNext ==
    \/ PostValidate
    \/ PostCheckoutSession
    \/ PostPortalSession
    \/ PortalSession
    \/ SeqEnsureSelect
    \/ SeqEnsureInsert
    \/ SeqFetch
    \/ Update(SeqSlot)
    \/ ReadCustomer(SeqSlot)
    \/ CreateCustomer(SeqSlot)
    \/ WriteCustomer(SeqSlot)

ApiSpec == Init /\ [][ApiNext]_vars

\* The Event Normalizer on its own: handleSubscriptionUpdate is entered
\* with one subscription object out of every shape of payload, for a
\* customer whose record is linked, and runs to its end.
CivilInstant(y, m, d, sod) == DaysFromCivil(y, m, d) * 86400 + sod

NormalizerStatuses == {"active", "trialing", "past_due", "canceled"}

NormalizerItems ==
    {<< >>, <<[current_period_end |-> 50]>>,
     <<[current_period_end |-> 50], [current_period_end |-> 55]>>}

NormalizerAnchors ==
    {CivilInstant(2024, 1, 15, 37800), CivilInstant(2024, 1, 31, 0),
     CivilInstant(2024, 2, 29, 43200), CivilInstant(2024, 12, 31, 86399)}

NormalizerPlans ==
    [interval : {NULL, "month", "year", "week", "day"},
     interval_count : {0, 1, 3}]

NormalizerSubscriptions ==
    [customer : {"cus_1"}, id : {"sub_1"}, status : NormalizerStatuses,
     cancel_at_period_end : BOOLEAN, current_period_end : {0, 40},
     items : NormalizerItems, billing_cycle_anchor : NormalizerAnchors,
     plan : NormalizerPlans]

NormalizerEvents ==
    [type : {"customer.subscription.updated"},
     object : NormalizerSubscriptions, created : {1}]

NormalizerInit ==
    /\ store = [u \in Users |-> [NewRow EXCEPT !.stripe_customer_id = "cus_1"]]
    /\ \E ev \in NormalizerEvents :
          calls = [p \in Slots |->
                      IF p = SeqSlot THEN ReceivedCall(ev) ELSE IdleCall]
    /\ now = 1
    /\ nCalls = 0
    /\ served = 0
    /\ lastWebhook = [type |-> "none", created |-> NoTime,
                      data |-> NoData, http |-> 0]

Normalize == normalizeSubscription(SeqSlot) /\ Unobserved

NormalizerNext ==
    \/ Normalize
    \/ RpcComplete(SeqSlot)

NormalizerSpec == NormalizerInit /\ [][NormalizerNext]_vars

\* The dispatcher: verified events of every type, one request at a time,
\* each run through the switch.  The clock stands still.
DispatchEvents ==
    [type : {"checkout.session.completed"}, created : EventTimes,
     object : WebhookSessions]
    \cup [type : {"customer.subscription.created",
                  "customer.subscription.updated",
                  "customer.subscription.deleted"},
          created : EventTimes, object : QuotaSubscriptions]
    \cup [type : LogOnlyTypes, created : EventTimes,
          object : {[customer |-> "cus_1"]}]

Dispatch ==
    /\ \E ev \in DispatchEvents : dispatchEvent(SeqSlot, ev)
    /\ Unobserved

RunHandler == runHandler(SeqSlot) /\ Unobserved

DispatchReturn == dispatchReturn(SeqSlot) /\ Unobserved

DispatchNext ==
    \/ Dispatch
    \/ RunHandler
    \/ DispatchReturn

DispatchSpec == Init /\ [][DispatchNext]_vars

\* A user's whole history: quota calls one at a time, checkout
\* completions, and the events of one subscription (created, scheduled to
\* cancel, canceled, deleted) delivered at any moment, also in the middle
\* of a call, in any order and any number of times, with the clock running.
LifeSubscriptionUpdate ==
    /\ \E rq \in EndpointUpdateRequests : handleSubscriptionUpdate(rq)
    /\ Unobserved

LifeSubscriptionDeleted ==
    /\ \E ev \in EndpointDeletedEvents : handleSubscriptionDeleted(ev)
    /\ Unobserved

LifecycleNext ==
    \/ SeqTick
    \/ SeqStart
    \/ SeqEnsureSelect
    \/ SeqEnsureInsert
    \/ SeqFetch
    \/ SeqUpdate
    \/ SeqCheckout
    \/ SeqUpdateCustomer
    \/ LifeSubscriptionUpdate
    \/ LifeSubscriptionDeleted

LifecycleSpec == Init /\ [][LifecycleNext]_vars

\* Concurrent quota calls of users who never become premium, with the
\* allowed answers tallied: NumSlots calls in flight at once, checkout
\* completions in between, no subscription event.
TallyStart(p) ==
    /\ nCalls < MaxCalls
    /\ \E u \in Users : validateAndIncrementRequest(p, u)
    /\ nCalls' = nCalls + 1
    /\ UNCHANGED <<served, lastWebhook>>

\* the update of lines 45-51 is followed by the return of allowed: true
TallyUpdate(p) ==
    /\ validateUpdate(p)
    /\ served' = served + 1
    /\ UNCHANGED <<nCalls, lastWebhook>>

TallyNext ==
    \/ \E p \in Slots : TallyStart(p)
    \/ \E p \in Slots : EnsureSelect(p)
    \/ \E p \in Slots : EnsureInsert(p)
    \/ \E p \in Slots : Fetch(p)
    \/ \E p \in Slots : TallyUpdate(p)
    \/ \E p \in Slots : Checkout(p)
    \/ \E p \in Slots : UpdateCustomer(p)

TallySpec == Init /\ [][TallyNext]_vars

\* The whole service, one API call at a time: every route and every kind
\* of webhook request, events delivered at any moment, also in the middle
\* of a call, each webhook request's outcome logged.  The clock stands
\* still.
ServiceUpdateRequests ==
    {UpdateRequest(ev) :
        ev \in [type : {"customer.subscription.created",
                        "customer.subscription.updated"},
                object : {o \in EndpointSubscriptions :
                             o.status = "active" \/ ~o.cancel_at_period_end},
                created : EventTimes]}

SvcSubscriptionUpdate ==
    /\ \E rq \in ServiceUpdateRequests :
          /\ handleSubscriptionUpdate(rq)
          /\ lastWebhook' = SubscriptionOutcome(rq.type, rq.created, rq.prm)
    /\ NoCounts

ServiceNext ==
    \/ PostValidate
    \/ PostCheckoutSession
    \/ PostPortalSession
    \/ PortalSession
    \/ GetStatus(SeqSlot)
    \/ StatusSelect(SeqSlot)
    \/ StatusDefault(SeqSlot)
    \/ SeqEnsureSelect
    \/ SeqEnsureInsert
    \/ SeqFetch
    \/ Update(SeqSlot)
    \/ ReadCustomer(SeqSlot)
    \/ CreateCustomer(SeqSlot)
    \/ WriteCustomer(SeqSlot)
    \/ WhCheckout
    \/ WhUpdateCustomer
    \/ SvcSubscriptionUpdate
    \/ EpSubscriptionDeleted
    \/ WhLogOnly
    \/ WhRejected

ServiceSpec == Init /\ [][ServiceNext]_vars

(* ------------------------------- Quota Gate --------------------------- *)

\* slot p's call has returned allowed, as a free user, with the count that
\* reaches the limit
TookLastFreeRequest(p) ==
    /\ calls[p].pc = "done"
    /\ calls[p].op = "validate"
    /\ calls[p].result.outcome = "return"
    /\ calls[p].result.allowed
    /\ ~calls[p].result.isPremium
    /\ calls[p].result.requestCount = FREE_USER_REQUEST_LIMIT

\* C1: of the calls that race for a free user's last request (stored count
\* one below the limit), at most one is answered allowed with the count at
\* the limit; two calls are never both allowed for it.
C1_OnlyOneTakesLastFreeRequest ==
    \A p, q \in Slots :
        p # q => ~(TookLastFreeRequest(p) /\ TookLastFreeRequest(q))

\* C2: after N < FREE_USER_REQUEST_LIMIT calls made one after another for a
\* user who never had a subscription, the stored count is N, all N calls
\* were allowed, and the call that has just returned, the N-th, returned N.
C2_SequentialCallsCounted ==
    \A u \in Users :
        (/\ HasRow(u)
         /\ store[u].subscription_status = NULL
         /\ Free(SeqSlot)
         /\ nCalls < FREE_USER_REQUEST_LIMIT)
        => /\ store[u].request_count = nCalls
           /\ served = nCalls
           /\ (calls[SeqSlot].pc = "done" /\ calls[SeqSlot].op = "validate")
              => calls[SeqSlot].result =
                     [outcome |-> "return", allowed |-> TRUE,
                      isPremium |-> FALSE, requestCount |-> nCalls,
                      limit |-> 0]

C2_Witness ==
    \E u \in Users :
        /\ HasRow(u)
        /\ store[u].subscription_status = NULL
        /\ nCalls = FREE_USER_REQUEST_LIMIT - 1
        /\ calls[SeqSlot].pc = "done"
        /\ calls[SeqSlot].op = "validate"
        /\ calls[SeqSlot].result.requestCount = FREE_USER_REQUEST_LIMIT - 1
        /\ store[u].request_count = FREE_USER_REQUEST_LIMIT - 1

\* slot p's validate call takes a step
ValidateCallStep(p) ==
    /\ calls[p].op = "validate"
    /\ calls[p].pc \in {"ensure_select", "ensure_insert", "fetch"}
    /\ calls'[p] # calls[p]

\* C3: a validate call that finds the user non-premium with a stored count
\* at or above the limit returns allowed = false with requestCount the
\* stored count and limit FREE_USER_REQUEST_LIMIT, ends there, and none of
\* its steps changes the record.
C3_DeniedAtLimit ==
    [][\A p \in Slots :
          LET u == calls[p].userId IN
          (/\ ValidateCallStep(p)
           /\ HasRow(u)
           /\ ~store[u].is_premium
           /\ store[u].request_count >= FREE_USER_REQUEST_LIMIT)
          => /\ store' = store
             /\ calls[p].pc = "fetch"
                => /\ calls'[p].pc = "done"
                   /\ calls'[p].result =
                          [outcome |-> "return", allowed |-> FALSE,
                           isPremium |-> FALSE,
                           requestCount |-> store[u].request_count,
                           limit |-> FREE_USER_REQUEST_LIMIT]]_vars

C3_Witness ==
    \E p \in Slots :
        /\ calls[p].pc = "done"
        /\ calls[p].op = "validate"
        /\ calls[p].result.outcome = "return"
        /\ ~calls[p].result.allowed
        /\ calls[p].result.limit = FREE_USER_REQUEST_LIMIT
        /\ store[calls[p].userId].request_count = FREE_USER_REQUEST_LIMIT

\* C4: whatever the interleaving of calls and webhook events, no step
\* lowers a record's stored request count.
C4_CountNeverDecreases ==
    [][\A u \in DOMAIN store :
          store'[u].request_count >= store[u].request_count]_vars

\* C5: the stored request count changes only in steps taken while the
\* stored premium flag is false, also for a call that read the record
\* before a subscription event set the flag and writes after it.
C5_CountWrittenOnlyWhileNotPremium ==
    [][\A u \in DOMAIN store :
          store'[u].request_count # store[u].request_count
          => ~store[u].is_premium]_vars

\* C6: a validate call that finds the user premium returns allowed = true
\* with requestCount the stored count, whether or not that count has
\* reached the limit, ends there, and none of its steps changes the store.
C6_PremiumNotCounted ==
    [][\A p \in Slots :
          LET u == calls[p].userId IN
          (/\ ValidateCallStep(p)
           /\ HasRow(u)
           /\ store[u].is_premium)
          => /\ store' = store
             /\ calls[p].pc = "fetch"
                => /\ calls'[p].pc = "done"
                   /\ calls'[p].result =
                          [outcome |-> "return", allowed |-> TRUE,
                           isPremium |-> TRUE,
                           requestCount |-> store[u].request_count,
                           limit |-> 0]]_vars

C6_Witness ==
    \E p \in Slots :
        /\ calls[p].pc = "done"
        /\ calls[p].op = "validate"
        /\ calls[p].result.allowed
        /\ calls[p].result.isPremium
        /\ calls[p].result.requestCount = FREE_USER_REQUEST_LIMIT
        /\ store[calls[p].userId].is_premium
        /\ store[calls[p].userId].request_count = FREE_USER_REQUEST_LIMIT

(* ------------------------ Subscription Reconciler --------------------- *)

\* the records a subscription event for this customer is matched to
Matching(customer) ==
    {u \in DOMAIN store : store[u].stripe_customer_id = customer}

\* the event is strictly older than the last one applied to its record
StaleFor(customer, created) ==
    \E u \in Matching(customer) :
        /\ store[u].last_webhook_timestamp # NoTime
        /\ created < store[u].last_webhook_timestamp

\* C7: a subscription created, updated or deleted event whose timestamp is
\* strictly older than the matching record's last webhook timestamp is
\* rejected and leaves every field of the record unchanged, whatever
\* status it carries.
C7_StaleEventRejected ==
    /\ \A rq \in SubscriptionUpdateRequests :
          StaleFor(rq.object.customer, rq.created)
          => /\ AfterSubscriptionUpdate(rq) = store
             /\ SubscriptionOutcome(rq.type, rq.created, rq.prm)
                    .data.updated = "false"
    /\ \A ev \in SubscriptionDeletedEvents :
          StaleFor(ev.object.customer, ev.created)
          => /\ AfterSubscriptionDeleted(ev) = store
             /\ SubscriptionOutcome(ev.type, ev.created,
                    SubscriptionDeletedParams(ev.object, ev.created))
                    .data.updated = "false"

C7_Witness ==
    /\ lastWebhook.created < MaxEventTime
    /\ lastWebhook.data.updated = "false"
    /\ lastWebhook.data.reason = "stale"
    /\ lastWebhook.data.status = "active"
    /\ \E u \in DOMAIN store : store[u].subscription_status = "canceled"

\* C8: an event for a subscription that is active with cancel at period
\* end set, arriving for a record whose status is canceled with a
\* timestamp not newer than the record's last webhook timestamp, leaves
\* the record as it is: still canceled and not premium.
C8_CancelingNeverRevivesCanceled ==
    \A rq \in SubscriptionUpdateRequests :
       \A u \in Matching(rq.object.customer) :
          (/\ rq.object.status = "active"
           /\ rq.object.cancel_at_period_end
           /\ store[u].subscription_status = "canceled"
           /\ rq.created <= store[u].last_webhook_timestamp)
          => /\ AfterSubscriptionUpdate(rq) = store
             /\ AfterSubscriptionUpdate(rq)[u].subscription_status = "canceled"
             /\ ~AfterSubscriptionUpdate(rq)[u].is_premium

C8_Witness ==
    /\ lastWebhook.created = MaxEventTime
    /\ lastWebhook.data.updated = "false"
    /\ lastWebhook.data.reason = "precedence"
    /\ lastWebhook.data.status = "canceling"
    /\ \E u \in DOMAIN store :
          /\ store[u].subscription_status = "canceled"
          /\ ~store[u].is_premium
          /\ store[u].last_webhook_timestamp = MaxEventTime

\* C9: in every step a record's last webhook timestamp stays or grows,
\* and a webhook delivery changes a record only when the timestamp of the
\* delivered event is at least the record's last webhook timestamp.
C9_WebhookTimestampMonotonic ==
    [][\A u \in DOMAIN store :
          /\ store'[u].last_webhook_timestamp >=
                 store[u].last_webhook_timestamp
          /\ (calls' = calls /\ store'[u] # store[u])
             => lastWebhook'.created >= store[u].last_webhook_timestamp]_vars

C9_Witness ==
    /\ lastWebhook.type = "customer.subscription.deleted"
    /\ lastWebhook.data.updated = "true"
    /\ lastWebhook.created = MaxEventTime
    /\ \E u \in DOMAIN store :
          /\ store[u].subscription_status = "canceled"
          /\ store[u].last_webhook_timestamp = MaxEventTime

\* C10: when a subscription created or updated event is accepted, the
\* record afterwards has is_premium true exactly when the event's
\* canonical status is active or canceling, that status as its
\* subscription status, the event's period end as its end date and the
\* event's timestamp as its last webhook timestamp.
C10_AcceptedEventApplied ==
    \A rq \in SubscriptionUpdateRequests :
       SubscriptionOutcome(rq.type, rq.created, rq.prm).data.updated = "true"
       => \A u \in Matching(rq.object.customer) :
             LET row == AfterSubscriptionUpdate(rq)[u] IN
             /\ row.is_premium =
                    (NormalizeStatus(rq.object) \in {"active", "canceling"})
             /\ row.subscription_status = NormalizeStatus(rq.object)
             /\ row.subscription_end_date = CurrentPeriodEnd(rq.object)
             /\ row.last_webhook_timestamp = rq.created

C10_Witness ==
    /\ lastWebhook.type = "customer.subscription.updated"
    /\ lastWebhook.created = MaxEventTime
    /\ lastWebhook.data.updated = "true"
    /\ lastWebhook.data.status = "canceling"
    /\ \E u \in DOMAIN store :
          /\ store[u].is_premium
          /\ store[u].subscription_status = "canceling"
          /\ store[u].subscription_end_date = 50
          /\ store[u].last_webhook_timestamp = MaxEventTime

\* C11: a customer.subscription.deleted event that is not older than the
\* matching record's last webhook timestamp is accepted whatever the
\* record's status, and leaves the record not premium, canceled, and with
\* the time of processing as its end date.
C11_DeletionAlwaysApplied ==
    \A ev \in EndpointDeletedEvents :
       \A u \in Matching(ev.object.customer) :
          ev.created >= store[u].last_webhook_timestamp
          => LET row == AfterSubscriptionDeleted(ev)[u] IN
             /\ SubscriptionOutcome(ev.type, ev.created,
                    SubscriptionDeletedParams(ev.object, ev.created))
                    .data.updated = "true"
             /\ ~row.is_premium
             /\ row.subscription_status = "canceled"
             /\ row.subscription_end_date = now
             /\ row.last_webhook_timestamp = ev.created

C11_Witness ==
    /\ lastWebhook.type = "customer.subscription.deleted"
    /\ lastWebhook.data.updated = "true"
    /\ now = MaxNow
    /\ \E u \in DOMAIN store :
          /\ ~store[u].is_premium
          /\ store[u].subscription_status = "canceled"
          /\ store[u].subscription_end_date = MaxNow
          /\ store[u].updated_at = MaxNow

\* the subscription fields of a row, which only the stored procedure writes
SubscriptionFields(row) ==
    <<row.is_premium, row.subscription_status, row.subscription_end_date,
      row.stripe_subscription_id, row.last_webhook_timestamp>>

C13_UnknownCustomerFails ==
    /\ \A rq \in EndpointUpdateRequests :
          Matching(rq.object.customer) = {}
          => /\ SubscriptionOutcome(rq.type, rq.created, rq.prm).http = 400
             /\ AfterSubscriptionUpdate(rq) = store
             /\ DOMAIN AfterSubscriptionUpdate(rq) = DOMAIN store
    /\ \A ev \in EndpointDeletedEvents :
          Matching(ev.object.customer) = {}
          => /\ SubscriptionOutcome(ev.type, ev.created,
                    SubscriptionDeletedParams(ev.object, ev.created))
                    .http = 400
             /\ AfterSubscriptionDeleted(ev) = store
             /\ DOMAIN AfterSubscriptionDeleted(ev) = DOMAIN store

C13_Witness ==
    /\ lastWebhook.type = "customer.subscription.updated"
    /\ lastWebhook.http = 400
    /\ \E u \in DOMAIN store :
          /\ store[u].stripe_customer_id = "cus_2"
          /\ store[u].subscription_status = NULL

\* C14: a subscription event the procedure rejects (updated = false, as
\* stale or as lower precedence) is not an error: the request is answered
\* 200 and the table is unchanged.
C14_RejectedEventAcknowledged ==
    /\ \A rq \in EndpointUpdateRequests :
          LET out == SubscriptionOutcome(rq.type, rq.created, rq.prm) IN
          out.data.updated = "false"
          => out.http = 200 /\ AfterSubscriptionUpdate(rq) = store
    /\ \A ev \in EndpointDeletedEvents :
          LET out == SubscriptionOutcome(ev.type, ev.created,
                        SubscriptionDeletedParams(ev.object, ev.created)) IN
          out.data.updated = "false"
          => out.http = 200 /\ AfterSubscriptionDeleted(ev) = store

C14_Witness ==
    /\ lastWebhook.type = "customer.subscription.deleted"
    /\ lastWebhook.data.updated = "false"
    /\ lastWebhook.data.reason = "stale"
    /\ lastWebhook.http = 200

\* C15: a webhook request whose signature header is missing or whose
\* signature is refused is answered 400, starts no handler and leaves the
\* table unchanged.
C15_BadSignatureRejected ==
    [][(/\ lastWebhook'.type \in {"missing", "invalid"}
        /\ (lastWebhook' # lastWebhook \/ calls' = calls))
       => /\ lastWebhook'.http = 400
          /\ calls' = calls
          /\ store' = store]_vars

C15_Witness ==
    /\ lastWebhook.type = "invalid"
    /\ lastWebhook.http = 400
    /\ \E u \in DOMAIN store : store[u].is_premium

\* C16: a verified event of a type no case of the dispatcher handles is
\* answered 200 and leaves the table unchanged.
C16_UnknownTypeAcknowledged ==
    [][(/\ lastWebhook'.created # NoTime
        /\ HandlerOf(lastWebhook'.type) = "unhandled"
        /\ (lastWebhook' # lastWebhook \/ calls' = calls))
       => /\ lastWebhook'.http = 200
          /\ calls' = calls
          /\ store' = store]_vars

C16_Witness ==
    /\ lastWebhook.type = "charge.refunded"
    /\ lastWebhook.http = 200
    /\ \E u \in DOMAIN store : store[u].is_premium

\* C17: a checkout.session.completed event without a userId in its
\* metadata ends at once without an error (the request is answered 200),
\* and creates and modifies no record.
C17_CheckoutWithoutUserIsNoOp ==
    [][\A p \in Slots :
          (/\ Free(p)
           /\ calls'[p] # calls[p]
           /\ calls'[p].op = "checkout"
           /\ calls'[p].userId = NULL)
          => /\ store' = store
             /\ calls'[p].pc = "done"
             /\ WebhookResponse(calls'[p].result.outcome = "throw") = 200]_vars

C17_Witness ==
    /\ store = << >>
    /\ \E p \in Slots :
          /\ calls[p].pc = "done"
          /\ calls[p].op = "checkout"
          /\ calls[p].userId = NULL
          /\ calls[p].customerId = "cus_2"
          /\ calls[p].result.outcome = "return"

(* ----------------------------- Quota Store Client --------------------- *)

\* C18: once a record's stripe_customer_id is set, no step of a checkout
\* completion or of a createCheckoutSession call changes it to another
\* value.
C18_CustomerIdStable ==
    [][\A u \in DOMAIN store :
          store[u].stripe_customer_id # NULL
          => store'[u].stripe_customer_id = store[u].stripe_customer_id]_vars

ValidateResult(allowed, isPremium, requestCount, limit) ==
    [outcome |-> "return", allowed |-> allowed, isPremium |-> isPremium,
     requestCount |-> requestCount, limit |-> limit]

\* C20: for a new user, with one request at a time, the k-th
\* validate-request call, k <= 5, returns allowed with requestCount k and
\* stores k; every further call while the user has no subscription is
\* denied with requestCount 5 and limit 5 and stores nothing; an accepted
\* customer.subscription.updated event with status active and a newer
\* timestamp makes the record premium without touching the count; and
\* every call on the premium record at count 5 returns allowed with
\* requestCount 5 and stores nothing.
C20_EndToEnd ==
    [][/\ LET c == calls[SeqSlot]
              u == c.userId
              k == FREE_USER_REQUEST_LIMIT
          IN  (/\ c.op = "validate"
               /\ c.pc \in {"fetch", "update"}
               /\ calls'[SeqSlot].pc = "done"
               /\ HasRow(u))
              => LET res == calls'[SeqSlot].result IN
                 /\ (store[u].subscription_status = NULL /\ nCalls <= k)
                    => /\ res = ValidateResult(TRUE, FALSE, nCalls, 0)
                       /\ store'[u].request_count = nCalls
                 /\ (store[u].subscription_status = NULL /\ nCalls > k)
                    => /\ res = ValidateResult(FALSE, FALSE, k, k)
                       /\ store' = store
                       /\ store[u].request_count = k
                 /\ (store[u].is_premium /\ store[u].request_count = k)
                    => /\ res = ValidateResult(TRUE, TRUE, k, 0)
                       /\ store' = store
       /\ \A rq \in SeqRequests :
             \A u \in Matching(rq.object.customer) :
                (/\ rq.object.status = "active"
                 /\ rq.created > store[u].last_webhook_timestamp
                 /\ handleSubscriptionUpdate(rq))
                => /\ store'[u].is_premium
                   /\ store'[u].request_count = store[u].request_count]_vars

C20_Witness ==
    /\ nCalls = FREE_USER_REQUEST_LIMIT + 2
    /\ served = FREE_USER_REQUEST_LIMIT
    /\ calls[SeqSlot].pc = "done"
    /\ calls[SeqSlot].op = "validate"
    /\ calls[SeqSlot].result =
           ValidateResult(TRUE, TRUE, FREE_USER_REQUEST_LIMIT, 0)
    /\ \E u \in DOMAIN store :
          /\ store[u].is_premium
          /\ store[u].subscription_status = "active"
          /\ store[u].request_count = FREE_USER_REQUEST_LIMIT

(* ------------------------------ redelivery ---------------------------- *)

\* a row without its bookkeeping column updated_at
Settled(row) ==
    <<row.request_count, row.is_premium, row.subscription_status,
      row.subscription_end_date, row.stripe_customer_id,
      row.stripe_subscription_id, row.last_webhook_timestamp>>

\* two tables hold the same records, updated_at aside
SameRecords(s, t) ==
    /\ DOMAIN s = DOMAIN t
    /\ \A u \in DOMAIN s : Settled(s[u]) = Settled(t[u])

\* the last webhook request answered 200 was this subscription event
LastProcessed(type, created, prm) ==
    /\ lastWebhook.type = type
    /\ lastWebhook.created = created
    /\ lastWebhook.data.status = prm.p_status
    /\ lastWebhook.http = 200

\* C21: when the event a webhook request has just processed is delivered
\* again, with the same timestamp, and at whatever later time, the handler
\* leaves every record as it was after the first processing (its updated_at
\* aside): for subscription created/updated events, for subscription
\* deleted events and for checkout completions.
C21_RedeliveryIdempotent ==
    /\ \A rq \in EndpointUpdateRequests :
          LastProcessed(rq.type, rq.created, rq.prm)
          => SameRecords(AfterSubscriptionUpdate(rq), store)
    /\ \A ev \in EndpointDeletedEvents :
          LastProcessed(ev.type, ev.created,
                        SubscriptionDeletedParams(ev.object, ev.created))
          => SameRecords(AfterSubscriptionDeleted(ev), store)
    /\ LET c == calls[SeqSlot] IN
       (/\ c.pc = "done"
        /\ c.op = "checkout"
        /\ c.result.outcome = "return"
        /\ c.userId # NULL)
       => /\ HasRow(c.userId)
          /\ store[c.userId].stripe_customer_id = c.customerId

(* ---------------------------- error propagation ----------------------- *)

\* C22: a create-checkout-session call that met a store error, in
\* ensureUserRecord or in its own read or write of the customer id, does
\* not report success: it ends by throwing and the endpoint answers 500.
C22_StoreErrorsSurface ==
    \A p \in Slots :
       (/\ calls[p].pc = "done"
        /\ calls[p].op = "create_session"
        /\ StoreFailed(calls[p]))
       => /\ calls[p].result.outcome = "throw"
          /\ CheckoutSessionResponse(calls[p]) = 500

\* slot p's webhook request has ended with its handler throwing
HandlerThrew(c) ==
    /\ c.pc = "done"
    /\ c.op \in {"checkout", "subscription"}
    /\ c.result.outcome = "throw"

\* C23: the step in which a webhook handler meets an error (the rpc of a
\* subscription event, the insert of a checkout completion) ends its
\* request at once by a throw, which the endpoint answers with 400, and
\* changes no record; a request that has thrown takes no further step:
\* its slot changes only when a new delivery begins.
C23_HandlerExceptionFailsRequest ==
    [][\A p \in Slots :
          LET c == calls[p]
              d == calls'[p]
          IN  /\ (/\ c.pc = "rpc"
                  /\ d # c
                  /\ update_premium_status_from_webhook(
                         store, c.prm, now).error)
                 => /\ HandlerThrew(d)
                    /\ WebhookResponse(d.result.outcome = "throw") = 400
                    /\ store' = store
              /\ (/\ c.pc = "ensure_insert"
                  /\ c.op = "checkout"
                  /\ d # c
                  /\ HasRow(c.userId))
                 => /\ HandlerThrew(d)
                    /\ WebhookResponse(d.result.outcome = "throw") = 400
                    /\ store' = store
              /\ (HandlerThrew(c) /\ d # c)
                 => /\ d.result = NoResult \/ d.userId = NULL
                    /\ store' = store]_vars

C23_Witness ==
    \E p, q \in Slots :
       /\ HandlerThrew(calls[p])
       /\ calls[p].op = "subscription"
       /\ calls[q].op = "checkout"
       /\ calls[q].pc = "update_customer"
       /\ HasRow(calls[q].userId)

\* slot p's request was refused by its route: nothing of the service ran
RefusedByRoute(c, op) ==
    /\ c.pc = "done"
    /\ c.op = op
    /\ ApiResponse(c) = 400
    /\ c.userId = NULL
    /\ c.customerId = NULL

\* C24: a validate-request without userId, a create-checkout-session
\* without userId or without email and a create-portal-session without
\* customerId are answered 400 in the step that receives them; the step
\* changes no record, and the call it leaves has no service or provider
\* step to take and holds no provider customer.
C24_MissingFieldRefused ==
    [][LET p == SeqSlot IN
       /\ postValidateRequest(p, NULL)
          => RefusedByRoute(calls'[p], "validate") /\ store' = store
       /\ \A u \in Users \cup {NULL}, e \in Emails \cup {NULL} :
             ((u = NULL \/ e = NULL) /\ postCreateCheckoutSession(p, u, e))
             => RefusedByRoute(calls'[p], "create_session") /\ store' = store
       /\ postCreatePortalSession(p, NULL)
          => RefusedByRoute(calls'[p], "portal") /\ store' = store
       /\ (calls[p].result.outcome = "bad_request" /\ calls'[p] # calls[p])
          => /\ calls'[p].result.outcome \in {"none", "bad_request"}
             /\ store' = store]_vars

C24_Witness ==
    /\ RefusedByRoute(calls[SeqSlot], "create_session")
    /\ \E u \in DOMAIN store :
          /\ store[u].request_count > 0
          /\ store[u].stripe_customer_id # NULL

(* ---------------------------- Event Normalizer ------------------------ *)

\* the handler in slot p has computed the arguments of its rpc
Normalized(c) == c.pc = "rpc" /\ "event" \in DOMAIN c

\* C25: the status the normalizer passes on is the subscription's status
\* as sent, except that it is canceling exactly when cancel_at_period_end
\* is true and the status is active; any other status with
\* cancel_at_period_end set is passed on unchanged.
C25_CanonicalStatus ==
    LET c == calls[SeqSlot] IN
    Normalized(c)
    => LET sub == c.event.object IN
       /\ (c.prm.p_status = "canceling")
              = (sub.cancel_at_period_end /\ sub.status = "active")
       /\ ~(sub.cancel_at_period_end /\ sub.status = "active")
          => c.prm.p_status = sub.status

C25_Witness ==
    LET c == calls[SeqSlot] IN
    /\ Normalized(c)
    /\ c.event.object.cancel_at_period_end
    /\ c.event.object.status = "past_due"
    /\ c.prm.p_status = "past_due"

\* the period end the handler passes to the rpc, as an instant
PassedPeriodEnd(c) == ParseTimestamptz(c.prm.p_end_date)

\* C26: the period end passed on is the subscription's top-level
\* current_period_end when it has one; else that of the first item of its
\* item list when the list is not empty; else the value computed from
\* billing_cycle_anchor, which is never before the anchor.
C26_PeriodEndResolution ==
    LET c == calls[SeqSlot] IN
    Normalized(c)
    => LET sub == c.event.object
           end == PassedPeriodEnd(c)
       IN  /\ sub.current_period_end # 0 => end = sub.current_period_end
           /\ (sub.current_period_end = 0 /\ Len(sub.items) > 0)
              => end = sub.items[1].current_period_end
           /\ (sub.current_period_end = 0 /\ Len(sub.items) = 0)
              => /\ end >= sub.billing_cycle_anchor
                 /\ end = AdvanceAnchor(sub.billing_cycle_anchor,
                        IF sub.plan.interval = NULL
                        THEN "month" ELSE sub.plan.interval,
                        IF sub.plan.interval_count = 0
                        THEN 1 ELSE sub.plan.interval_count)

C26_Witness ==
    LET c == calls[SeqSlot] IN
    /\ Normalized(c)
    /\ c.event.object.current_period_end = 0
    /\ Len(c.event.object.items) = 2
    /\ PassedPeriodEnd(c) = c.event.object.items[1].current_period_end

\* the number of days of a month of the calendar
DaysInMonth(y, m) ==
    DaysFromCivil(IF m = 12 THEN y + 1 ELSE y, IF m = 12 THEN 1 ELSE m + 1, 1)
        - DaysFromCivil(y, m, 1)

\* the instant n calendar months after t: the same day of the month and
\* time of day, and the last day of the month when it has no such day
AddCalendarMonths(t, n) ==
    LET c  == CivilFromDays(t \div 86400)
        m0 == c.month - 1 + n
        yy == c.year + m0 \div 12
        mm == (m0 % 12) + 1
        dd == IF c.day > DaysInMonth(yy, mm) THEN DaysInMonth(yy, mm)
              ELSE c.day
    IN  DaysFromCivil(yy, mm, dd) * 86400 + (t % 86400)

\* t advanced by n units of interval
CalendarAdvance(t, interval, n) ==
    CASE interval = "month" -> AddCalendarMonths(t, n)
      [] interval = "year" -> AddCalendarMonths(t, 12 * n)
      [] interval = "week" -> t + 7 * n * 86400
      [] interval = "day" -> t + n * 86400

\* C27: when the subscription has neither a top-level period end nor
\* items, the period end passed on is billing_cycle_anchor advanced by
\* interval_count units of interval (calendar months, calendar years,
\* weeks of 7 days, days), with month and 1 for an absent interval and
\* count.
C27_FallbackAdvancesAnchor ==
    LET c == calls[SeqSlot] IN
    (/\ Normalized(c)
     /\ c.event.object.current_period_end = 0
     /\ Len(c.event.object.items) = 0)
    => LET sub == c.event.object IN
       PassedPeriodEnd(c) =
           CalendarAdvance(sub.billing_cycle_anchor,
               IF sub.plan.interval = NULL THEN "month" ELSE sub.plan.interval,
               IF sub.plan.interval_count = 0 THEN 1
               ELSE sub.plan.interval_count)

(* ------------------------------- routing ------------------------------ *)

\* the handler family the type of an event belongs to
Family(type) ==
    CASE type = "checkout.session.completed" -> <<"handleCheckoutCompleted">>
      [] type = "customer.subscription.created" ->
             <<"handleSubscriptionUpdate">>
      [] type = "customer.subscription.updated" ->
             <<"handleSubscriptionUpdate">>
      [] type = "customer.subscription.deleted" ->
             <<"handleSubscriptionDeleted">>
      [] type = "invoice.paid" -> <<"handleInvoicePaymentSucceeded">>
      [] type = "invoice.payment_succeeded" ->
             <<"handleInvoicePaymentSucceeded">>
      [] type = "invoice.payment_failed" -> <<"handleInvoicePaymentFailed">>
      [] OTHER -> << >>

\* C28: for a verified event of any type, the handlers the dispatcher has
\* still to call and the handlers it has called make up exactly the
\* family of the event's type: one handler for the six handled families,
\* none for any other type; no request ever has two handlers called, and
\* a request that has returned has had its family's handler called.
C28_OneHandlerPerEvent ==
    LET c == calls[SeqSlot] IN
    c.op = "webhook"
    => /\ c.ran \o c.handlers = Family(c.event.type)
       /\ Len(c.ran) <= 1
       /\ (c.pc = "done" /\ c.result.outcome = "return")
          => c.ran = Family(c.event.type)
       /\ Family(c.event.type) =
             IF HandlerOf(c.event.type) = "unhandled"
             THEN << >> ELSE <<HandlerOf(c.event.type)>>

C28_Witness ==
    LET c == calls[SeqSlot] IN
    /\ c.op = "webhook"
    /\ c.pc = "done"
    /\ c.result.outcome = "return"
    /\ c.event.type = "customer.subscription.deleted"
    /\ c.ran = <<"handleSubscriptionDeleted">>
    /\ \E u \in DOMAIN store : store[u].subscription_status = "canceled"

(* ------------------------------ the record ---------------------------- *)

\* C29: in every state every record is premium exactly when its
\* subscription status is active or canceling: from its creation (not
\* premium, no status) through accepted and rejected subscription events,
\* checkout completions and quota calls.
C29_PremiumIffActiveOrCanceling ==
    \A u \in DOMAIN store :
        store[u].is_premium
            = (store[u].subscription_status \in {"active", "canceling"})

C29_Witness ==
    \E u \in DOMAIN store :
        /\ store[u].is_premium
        /\ store[u].subscription_status = "canceling"
        /\ store[u].last_webhook_timestamp = MaxEventTime
        /\ store[u].request_count > 0
        /\ calls[SeqSlot].op = "validate"
        /\ calls[SeqSlot].pc = "update"

\* C30: whatever the interleaving of concurrent validate calls, every
\* write of a request count stores the count its call read plus one, that
\* call read a count below the limit, and so no record's stored count
\* ever exceeds FREE_USER_REQUEST_LIMIT.
C30_CountNeverExceedsLimit ==
    [][/\ \A u \in DOMAIN store' :
             store'[u].request_count <= FREE_USER_REQUEST_LIMIT
       /\ \A u \in DOMAIN store :
             store'[u].request_count # store[u].request_count
             => \E p \in Slots :
                   /\ calls[p].pc = "update"
                   /\ calls'[p].pc = "done"
                   /\ calls[p].userId = u
                   /\ calls[p].currentCount < FREE_USER_REQUEST_LIMIT
                   /\ store'[u].request_count = calls[p].currentCount + 1]_vars

C30_Witness ==
    /\ \A p \in Slots : TookLastFreeRequest(p)
    /\ \E u \in DOMAIN store :
          /\ ~store[u].is_premium
          /\ store[u].subscription_status = NULL
          /\ store[u].request_count = FREE_USER_REQUEST_LIMIT

\* C31: for a user who is never premium, once every call in flight has
\* completed, the stored request count equals the number of validate calls
\* answered allowed = true, whatever the interleaving: no allowed request
\* is lost from the count.
C31_NoAllowedRequestLost ==
    (\A p \in Slots : Free(p))
    => \A u \in DOMAIN store :
          ~store[u].is_premium => store[u].request_count = served

(* ------------------------------ frame effects ------------------------- *)

\* the premium flag and the subscription status of every record
PremiumFields(s) ==
    [u \in DOMAIN s |-> <<s[u].is_premium, s[u].subscription_status>>]

\* the step is an accepted customer.subscription.created / .updated request
AcceptedSubscriptionUpdateStep ==
    /\ calls' = calls
    /\ lastWebhook'.type \in {"customer.subscription.created",
                              "customer.subscription.updated"}
    /\ lastWebhook'.data.updated = "true"
    /\ lastWebhook'.http = 200

\* C32: a record's premium flag goes from false to true only in the step of
\* an accepted customer.subscription.created or .updated event; the steps
\* of checkout.session.completed, of the invoice and unknown events, of a
\* refused webhook request and of every API call (validate-request,
\* create-checkout-session, create-portal-session, subscription-status)
\* leave every record's premium flag and subscription status as they were,
\* a record they insert being not premium and without a status.
C32_PremiumOnlyBySubscriptionEvent ==
    [][/\ \A u \in DOMAIN store :
             (~store[u].is_premium /\ store'[u].is_premium)
             => AcceptedSubscriptionUpdateStep
       /\ (\/ calls' # calls
           \/ lastWebhook'.type \in LogOnlyTypes \cup {"missing", "invalid"})
          => \A u \in DOMAIN store' :
                PremiumFields(store')[u] =
                    IF u \in DOMAIN store
                    THEN PremiumFields(store)[u]
                    ELSE <<FALSE, NULL>>]_vars

\* a premium record with counted requests, the last webhook request an
\* invoice event, and a create-checkout-session call that has returned
C32_Witness ==
    /\ \E u \in DOMAIN store :
          /\ store[u].is_premium
          /\ store[u].subscription_status = "active"
          /\ store[u].request_count > 0
    /\ lastWebhook.type = "invoice.payment_failed"
    /\ calls[SeqSlot].op = "create_session"
    /\ calls[SeqSlot].pc = "done"
    /\ calls[SeqSlot].result.outcome = "return"

\* the step belongs to a webhook request: a subscription, invoice, unknown
\* or refused request (no call moves) or a step of a checkout completion
WebhookStep ==
    \/ calls' = calls
    \/ calls'[SeqSlot].op = "checkout"

\* C33: no step of a webhook request (checkout, subscription, invoice,
\* unknown) changes a stored request count; a count that has reached the
\* limit stays there through the upgrade and the cancellation, and the
\* validate call that then finds the record canceled and not premium is
\* denied with that same count and leaves the record alone.
C33_WebhooksKeepCount ==
    [][/\ WebhookStep
          => \A u \in DOMAIN store :
                store'[u].request_count = store[u].request_count
       /\ \A u \in DOMAIN store :
             store[u].request_count = FREE_USER_REQUEST_LIMIT
             => store'[u].request_count = FREE_USER_REQUEST_LIMIT
       /\ LET c == calls[SeqSlot]
              u == c.userId
          IN  (/\ c.op = "validate"
               /\ c.pc = "fetch"
               /\ calls'[SeqSlot].pc = "done"
               /\ HasRow(u)
               /\ store[u].subscription_status = "canceled"
               /\ store[u].request_count = FREE_USER_REQUEST_LIMIT)
              => /\ store' = store
                 /\ calls'[SeqSlot].result =
                        [outcome |-> "return", allowed |-> FALSE,
                         isPremium |-> FALSE,
                         requestCount |-> FREE_USER_REQUEST_LIMIT,
                         limit |-> FREE_USER_REQUEST_LIMIT]]_vars

\* a call denied at the limit on a record canceled by the subscription's
\* deletion, the newest event of a subscription that had been stored
C33_Witness ==
    LET c == calls[SeqSlot] IN
    /\ c.op = "validate"
    /\ c.pc = "done"
    /\ ~c.result.allowed
    /\ c.result.requestCount = FREE_USER_REQUEST_LIMIT
    /\ HasRow(c.userId)
    /\ store[c.userId].subscription_status = "canceled"
    /\ ~store[c.userId].is_premium
    /\ store[c.userId].request_count = FREE_USER_REQUEST_LIMIT
    /\ store[c.userId].last_webhook_timestamp = MaxEventTime
    /\ lastWebhook.type = "customer.subscription.deleted"
    /\ lastWebhook.data.updated = "true"

====
